---- MODULE Spec2Model ----
(***************************************************************************)
(* A state-machine model of the OPTICS module (optics.hpp, DataPoint.hpp,  *)
(* common.hpp): the ordering algorithm optics() / expand_cluster_order()   *)
(* in its plain and its callback version, the helpers update_seeds(),      *)
(* get_neighbors(), squared_core_distance(), squared_distance(), the seed  *)
(* set's comparison functor, and extract_clusters().                       *)
(*                                                                         *)
(* A DataPoint* is modelled by the point's position in the caller's db     *)
(* vector; addr gives the order of the pointers themselves.  Reals are     *)
(* modelled by integers (all coordinates and eps are integral, so every    *)
(* squared distance is exact), UNDEFINED by a number above every distance  *)
(* the bounded datasets can produce.  assert() is modelled as active (a    *)
(* build without NDEBUG): a failed assertion ends the program.             *)
(***************************************************************************)
EXTENDS Integers, Sequences, FiniteSets, TLC

\* ------------------------------------------------------------- bounds
NPts == 3          \* at most this many points in db
MaxCoord == 2      \* coordinates are drawn from 0..MaxCoord
MaxEps == 2        \* eps is drawn from -1..MaxEps
MaxMinPts == 2     \* min_pts is drawn from 0..MaxMinPts
MaxCalls == 2      \* the caller calls optics() at most this often
MaxBorders == 2    \* cluster_borders has at most this many entries
MaxReach == 2      \* an ordering handed to extract_clusters holds reachabilities 0..MaxReach or UNDEFINED
MaxOver == 1       \* a border index handed to extract_clusters exceeds result.size() by at most this
MaxExtrema == 3    \* the persistence routine delivers at most this many paired extrema
MaxK == 4          \* find_k_histogram_peaks is called with n_clusters in 0..MaxK
MaxPeakIndex == 2  \* a paired extremum has its MaxIndex in 0..MaxPeakIndex
MaxPersistence == 2 \* a paired extremum has its Persistence in 1..MaxPersistence

\* std::numeric_limits<real>::max()
REAL_MAX == 1000000

\* const real UNDEFINED = std::numeric_limits<real>::max();
UNDEFINED == REAL_MAX

VARIABLES
    db,            \* the caller's DataVector: the points in storage order
    data,          \* DataPoint::_data of every point
    addr,          \* the order of the DataPoint* values (lhs < rhs on pointers)
    reach,         \* DataPoint::_reachability_distance of every point
    processed,     \* DataPoint::_is_processed of every point
    pc,            \* control position of the program
    eps, min_pts,  \* parameters of the running optics() call
    version,       \* "plain" or "callback": which overload is running
    ret,           \* optics(): DataVector ret / o_ordered_vector
    p_it,          \* optics(): the iterator over db (an index)
    p,             \* expand_cluster_order(): the point it was called on
    N_eps,         \* expand_cluster_order(): DataVector N_eps
    core_dist_p,   \* expand_cluster_order(): core_dist_p
    seeds,         \* expand_cluster_order(): DataSet seeds, in the set's order
    q,             \* expand_cluster_order(): the seed taken in the while loop
    N_q,           \* expand_cluster_order(): DataVector N_q
    core_dist_q,   \* expand_cluster_order(): core_dist_q
    it,            \* update_seeds(): the iterator over its N_eps (an index)
    cb_args,       \* the arguments the callback was invoked with, in order
    calls,         \* number of optics() calls the caller has made
    results,       \* what the finished calls returned, with the values then held
    entry,         \* reachability / processed of every point when optics() was entered
    exps,          \* the expand_cluster_order calls of this run: point and first slot
    ec_pc,              \* control position inside extract_clusters()
    result,             \* extract_clusters(): the ordering it is given
    cluster_borders,    \* extract_clusters(): the border indices it is given
    outlier_threshold,  \* extract_clusters(): real outlier_threshold (the callee's copy)
    threshold_arg,      \* the outlier_threshold the caller passed to extract_clusters()
    ec_ret,             \* extract_clusters(): std::vector<DataVector> ret
    ec_i, ec_j,         \* extract_clusters(): the loop counters i and j
    lower_idx, upper_idx, \* extract_clusters(): the bounds of segment i
    cluster_i,          \* extract_clusters(): DataVector cluster_i
    pk_pc,              \* control position inside find_k_histogram_peaks()
    n_clusters,         \* find_k_histogram_peaks(): const uint n_clusters
    extrema,            \* find_k_histogram_peaks(): vector<p1d::TPairedExtrema> extrema
    pk_n, pk_i,         \* find_k_histogram_peaks(): the loop counters n and i
    pk_ret              \* find_k_histogram_peaks(): std::vector<unsigned int> ret

vars == <<db, data, addr, reach, processed, pc, eps, min_pts, version, ret, p_it,
          p, N_eps, core_dist_p, seeds, q, N_q, core_dist_q, it, cb_args,
          calls, results, entry, exps,
          ec_pc, result, cluster_borders, outlier_threshold, threshold_arg, ec_ret, ec_i, ec_j,
          lower_idx, upper_idx, cluster_i,
          pk_pc, n_clusters, extrema, pk_n, pk_i, pk_ret>>

\* the state of find_k_histogram_peaks()
peakvars == <<pk_pc, n_clusters, extrema, pk_n, pk_i, pk_ret>>

\* the state of extract_clusters()
ecvars == <<ec_pc, result, cluster_borders, outlier_threshold, threshold_arg, ec_ret, ec_i, ec_j,
            lower_idx, upper_idx, cluster_i>>

\* the state of optics() and of its caller
opticsvars == <<pc, eps, min_pts, version, ret, p_it, p, N_eps, core_dist_p, seeds,
                q, N_q, core_dist_q, it, cb_args, calls, results, entry, exps>>

\* ------------------------------------------------------------- helpers
Max(a, b) == IF a >= b THEN a ELSE b

Range(s) == {s[i] : i \in 1..Len(s)}

\* the points of one dimension with bounded coordinates
DataSpace == {<<x>> : x \in 0..MaxCoord}

RECURSIVE SumSq(_, _, _)
SumSq(a_data, b_data, i) ==
    IF i > Len(a_data) THEN 0
    ELSE (a_data[i] - b_data[i]) * (a_data[i] - b_data[i]) + SumSq(a_data, b_data, i + 1)

\* real squared_distance( const DataPoint* a, const DataPoint* b)
squared_distance(a, b) == SumSq(data[a], data[b], 1)

\* get_neighbors without its test of the distance: the whole db
get_neighbors_all(pt, e, d) == d

\* DataVector get_neighbors( const DataPoint* p, const real eps, DataVector& db)
get_neighbors(pt, e, d) ==
    SelectSeq(d, LAMBDA x : squared_distance(pt, x) <= e * e)

\* std::nth_element( first, first+n, last, comp) with comp = "nearer to pt":
\* any rearrangement in which nothing before slot n is farther than the
\* element in slot n and nothing after it is nearer (n is 0-based as in C++)
nth_element(N, n, pt) ==
    LET arr == {[i \in 1..Len(N) |-> N[f[i]]] : f \in Permutations(1..Len(N))}
    IN  {M \in arr :
            /\ \A i \in 1..n :
                 squared_distance(pt, M[i]) <= squared_distance(pt, M[n + 1])
            /\ \A i \in (n + 2)..Len(M) :
                 squared_distance(pt, M[i]) >= squared_distance(pt, M[n + 1])}

\* what squared_core_distance may leave in its N_eps argument
core_rearranged(pt, mp, N) ==
    IF Len(N) > mp THEN nth_element(N, mp, pt) ELSE {N}

\* squared_core_distance reading one slot too early: N_eps[min_pts-1]
squared_core_distance_early(pt, mp, M) ==
    IF Len(M) > mp THEN squared_distance(pt, M[mp]) ELSE UNDEFINED

\* real squared_core_distance( p, min_pts, N_eps): the value returned when
\* the call leaves N_eps as M
squared_core_distance(pt, mp, M) ==
    IF Len(M) > mp THEN squared_distance(pt, M[mp + 1]) ELSE UNDEFINED

\* the comparison without its tie-break on the pointers
Comp_no_tiebreak(r, lhs, rhs) == r[lhs] < r[rhs]

\* bool Comp_DataPoint_Ptr_f::operator() (lhs, rhs), on the reachabilities r
Comp(r, lhs, rhs) ==
    \/ r[lhs] < r[rhs]
    \/ r[lhs] = r[rhs] /\ addr[lhs] < addr[rhs]

\* std::set lower bound: the first slot whose element is not before o
LowerBound(s, o, r) ==
    LET later == {i \in 1..Len(s) : ~Comp(r, s[i], o)}
    IN  IF later = {} THEN Len(s) + 1
        ELSE CHOOSE i \in later : \A j \in later : i <= j

\* DataSet::insert( o): no effect when an equivalent element is present
SetInsert(s, o, r) ==
    LET i == LowerBound(s, o, r)
    IN  IF i <= Len(s) /\ ~Comp(r, o, s[i]) THEN s
        ELSE SubSeq(s, 1, i - 1) \o <<o>> \o SubSeq(s, i, Len(s))

\* DataSet::erase( o) that finds nothing to remove
SetErase_none(s, o, r) == s

\* DataSet::erase( o): removes the element equivalent to o, if there is one
SetErase(s, o, r) ==
    LET i == LowerBound(s, o, r)
    IN  IF i <= Len(s) /\ ~Comp(r, o, s[i])
        THEN SubSeq(s, 1, i - 1) \o SubSeq(s, i + 1, Len(s))
        ELSE s

\* new_r_dist that forgets the distance to o
new_r_dist_core_only(c_dist, center_object, o) == c_dist

\* update_seeds: const real new_r_dist = std::max( c_dist, squared_distance( center_object, o))
new_r_dist(c_dist, center_object, o) ==
    Max(c_dist, squared_distance(center_object, o))

\* update_seeds without its test of the processed flag
skipped_never(o) == FALSE

\* update_seeds: if( o->is_processed()) continue;
skipped(o) == processed[o]

\* optics(): if( p->is_processed()) continue;  without the test
already_processed_never(x) == FALSE

\* optics(): if( p->is_processed()) continue;
already_processed(x) == processed[x]

\* optics() checking eps only
params_ok_eps_only(e, m) == e >= 0

\* optics(): assert( eps >= 0 ...); assert( min_pts > 0 ...);
params_ok(e, m) == e >= 0 /\ m > 0

\* ------------------------------------------------------------- initial state
\* A dataset as the caller builds it: every DataPoint freshly constructed
\* (DataPoint::DataPoint sets UNDEFINED / false), no call made yet.
InitOptics ==
    /\ pc = "caller"
    /\ eps = 0 /\ min_pts = 1 /\ version = "plain"
    /\ ret = <<>> /\ p_it = 1
    /\ p = 0 /\ N_eps = <<>> /\ core_dist_p = UNDEFINED
    /\ seeds = <<>>
    /\ q = 0 /\ N_q = <<>> /\ core_dist_q = UNDEFINED
    /\ it = 1
    /\ cb_args = <<>>
    /\ calls = 0 /\ results = <<>> /\ exps = <<>>

\* extract_clusters() is not running
IdleExtract ==
    /\ ec_pc = "idle"
    /\ result = <<>> /\ cluster_borders = <<>> /\ outlier_threshold = 0 /\ threshold_arg = 0
    /\ ec_ret = <<>> /\ ec_i = 0 /\ ec_j = 0
    /\ lower_idx = 0 /\ upper_idx = 0
    /\ cluster_i = <<>>

\* find_k_histogram_peaks() is not running
IdlePeaks ==
    /\ pk_pc = "idle"
    /\ n_clusters = 0 /\ extrema = <<>>
    /\ pk_n = 0 /\ pk_i = 0 /\ pk_ret = <<>>

Init ==
    /\ \E n \in 0..NPts :
          /\ db = [i \in 1..n |-> i]
          /\ data \in [1..n -> DataSpace]
          /\ addr \in Permutations(1..n)
          /\ reach = [i \in 1..n |-> UNDEFINED]
          /\ processed = [i \in 1..n |-> FALSE]
          /\ entry = [reach |-> [i \in 1..n |-> UNDEFINED],
                      processed |-> [i \in 1..n |-> FALSE]]
    /\ InitOptics
    /\ IdleExtract
    /\ IdlePeaks

\* ------------------------------------------------------------- the caller
\* The caller invokes one of the two optics() overloads on its db.  Its first
\* call takes any parameters; a later call on the same db repeats the eps and
\* min_pts of the call before or replaces either by an invalid value.
Call(e, m, v) ==
    /\ pc = "caller"
    /\ calls < MaxCalls
    /\ calls > 0 => (e \in {eps, -1} /\ m \in {min_pts, 0})
    /\ pc' = "optics"
    /\ eps' = e /\ min_pts' = m /\ version' = v
    /\ calls' = calls + 1
    /\ entry' = [reach |-> reach, processed |-> processed]
    /\ ret' = <<>> /\ exps' = <<>> /\ cb_args' = <<>>
    /\ UNCHANGED <<ecvars, peakvars, db, data, addr, reach, processed, p_it, p, N_eps, core_dist_p,
                   seeds, q, N_q, core_dist_q, it, results>>

\* ------------------------------------------------------------- optics()
\* the two assertions at the head of optics(), then DataVector ret and the
\* start of the for loop
OpticsEntry ==
    /\ pc = "optics"
    /\ IF params_ok(eps, min_pts)
       THEN pc' = "for" /\ p_it' = 1 /\ ret' = <<>>
       ELSE pc' = "aborted" /\ UNCHANGED <<p_it, ret>>
    /\ UNCHANGED <<ecvars, peakvars, db, data, addr, reach, processed, eps, min_pts, version,
                   p, N_eps, core_dist_p, seeds, q, N_q, core_dist_q, it, cb_args,
                   calls, results, entry, exps>>

\* if( p->is_processed()) continue;
OpticsSkip ==
    /\ pc = "for"
    /\ p_it <= Len(db)
    /\ already_processed(db[p_it])
    /\ p_it' = p_it + 1
    /\ UNCHANGED <<ecvars, peakvars, db, data, addr, reach, processed, pc, eps, min_pts, version, ret,
                   p, N_eps, core_dist_p, seeds, q, N_q, core_dist_q, it, cb_args,
                   calls, results, entry, exps>>

\* expand_cluster_order( db, p, eps, min_pts, ret [, point_processed_callback]);
OpticsExpand ==
    /\ pc = "for"
    /\ p_it <= Len(db)
    /\ ~already_processed(db[p_it])
    /\ p' = db[p_it]
    /\ pc' = "expand"
    /\ exps' = Append(exps, [p |-> db[p_it], first |-> Len(ret) + 1])
    /\ UNCHANGED <<ecvars, peakvars, db, data, addr, reach, processed, eps, min_pts, version, ret, p_it,
                   N_eps, core_dist_p, seeds, q, N_q, core_dist_q, it, cb_args,
                   calls, results, entry>>

\* return ret;
OpticsReturn ==
    /\ pc = "for"
    /\ p_it > Len(db)
    /\ results' = Append(results, [eps |-> eps, min_pts |-> min_pts, version |-> version,
                                   ret |-> ret, reach |-> reach, cb_args |-> cb_args,
                                   processed |-> processed, addr |-> addr, entry |-> entry])
    /\ pc' = "caller"
    /\ UNCHANGED <<ecvars, peakvars, db, data, addr, reach, processed, eps, min_pts, version, ret, p_it,
                   p, N_eps, core_dist_p, seeds, q, N_q, core_dist_q, it, cb_args,
                   calls, entry, exps>>

\* ------------------------------------------------------------- expand_cluster_order()
\* what no step of expand_cluster_order touches
frame == <<ecvars, peakvars, db, data, addr, eps, min_pts, version, p_it, p, calls, results, entry, exps>>

\* DataVector N_eps = get_neighbors( p, eps, db);
\* p->reachability_distance( OPTICS::UNDEFINED);
ExpandNeighbors ==
    /\ pc = "expand"
    /\ N_eps' = get_neighbors(p, eps, db)
    /\ reach' = [reach EXCEPT ![p] = UNDEFINED]
    /\ pc' = "core_p"
    /\ UNCHANGED <<frame, processed, ret, core_dist_p, seeds, q, N_q, core_dist_q, it, cb_args>>

\* const real core_dist_p = squared_core_distance( p, min_pts, N_eps);
ExpandCoreDist ==
    /\ pc = "core_p"
    /\ \E M \in core_rearranged(p, min_pts, N_eps) :
          /\ N_eps' = M
          /\ core_dist_p' = squared_core_distance(p, min_pts, M)
    /\ pc' = "emit_p"
    /\ UNCHANGED <<frame, reach, processed, ret, seeds, q, N_q, core_dist_q, it, cb_args>>

\* plain version: p->processed( true); o_ordered_vector.push_back( p);
ExpandEmit ==
    /\ pc = "emit_p"
    /\ version = "plain"
    /\ processed' = [processed EXCEPT ![p] = TRUE]
    /\ ret' = Append(ret, p)
    /\ pc' = "check_p"
    /\ UNCHANGED <<frame, reach, N_eps, core_dist_p, seeds, q, N_q, core_dist_q, it, cb_args>>

\* callback version: ... o_ordered_vector.push_back( p); point_processed_callback( p);
ExpandEmitCb ==
    /\ pc = "emit_p"
    /\ version = "callback"
    /\ processed' = [processed EXCEPT ![p] = TRUE]
    /\ ret' = Append(ret, p)
    /\ cb_args' = Append(cb_args, p)
    /\ pc' = "check_p"
    /\ UNCHANGED <<frame, reach, N_eps, core_dist_p, seeds, q, N_q, core_dist_q, it>>

\* if( core_dist_p == OPTICS::UNDEFINED) return;
ExpandNotCore ==
    /\ pc = "check_p"
    /\ core_dist_p = UNDEFINED
    /\ pc' = "for"
    /\ p_it' = p_it + 1
    /\ N_eps' = <<>>
    /\ UNCHANGED <<ecvars, peakvars, db, data, addr, eps, min_pts, version, p, calls, results, entry, exps,
                   reach, processed, ret, core_dist_p, seeds, q, N_q, core_dist_q, it, cb_args>>

\* DataSet seeds; update_seeds( N_eps, p, core_dist_p, seeds);
ExpandSeed ==
    /\ pc = "check_p"
    /\ core_dist_p # UNDEFINED
    /\ seeds' = <<>>
    /\ it' = 1
    /\ pc' = "us_p"
    /\ UNCHANGED <<frame, reach, processed, ret, N_eps, core_dist_p, q, N_q, core_dist_q, cb_args>>

\* ------------------------------------------------------------- update_seeds()
\* the body of update_seeds' for loop improving the reachability of o while o
\* stays in the set: no erase and no insert
update_seeds_body_in_place(o, center_object, c_dist) ==
    IF skipped(o)
    THEN UNCHANGED <<reach, seeds>>
    ELSE LET nrd == new_r_dist(c_dist, center_object, o)
         IN  IF reach[o] = UNDEFINED
             THEN /\ reach' = [reach EXCEPT ![o] = nrd]
                  /\ seeds' = SetInsert(seeds, o, reach')
             ELSE IF nrd < reach[o]
                  THEN /\ reach' = [reach EXCEPT ![o] = nrd]
                       /\ UNCHANGED seeds
                  ELSE UNCHANGED <<reach, seeds>>

\* the body of update_seeds' for loop for the element o of N_eps: what it
\* makes of the reachabilities and of the seeds
update_seeds_body(o, center_object, c_dist) ==
    IF skipped(o)
    THEN UNCHANGED <<reach, seeds>>
    ELSE LET nrd == new_r_dist(c_dist, center_object, o)
         IN  IF reach[o] = UNDEFINED
             THEN /\ reach' = [reach EXCEPT ![o] = nrd]
                  /\ seeds' = SetInsert(seeds, o, reach')
             ELSE IF nrd < reach[o]
                  THEN /\ reach' = [reach EXCEPT ![o] = nrd]
                       /\ seeds' = SetInsert(SetErase(seeds, o, reach), o, reach')
                  ELSE UNCHANGED <<reach, seeds>>

\* the arguments of the running update_seeds call: it was called either on
\* ( N_eps, p, core_dist_p, seeds) or on ( N_q, q, core_dist_q, seeds)
us_N == IF pc = "us_p" THEN N_eps ELSE N_q
us_center == IF pc = "us_p" THEN p ELSE q
us_c_dist == IF pc = "us_p" THEN core_dist_p ELSE core_dist_q

\* one iteration of for( it=N_eps.begin(); it!=N_eps.end(); ++it)
UpdateSeedsIter ==
    /\ pc \in {"us_p", "us_q"}
    /\ it <= Len(us_N)
    /\ update_seeds_body(us_N[it], us_center, us_c_dist)
    /\ it' = it + 1
    /\ UNCHANGED <<frame, processed, pc, ret, N_eps, core_dist_p, q, N_q, core_dist_q, cb_args>>

\* update_seeds returns to expand_cluster_order, which goes on to while( !seeds.empty())
UpdateSeedsReturn ==
    /\ pc \in {"us_p", "us_q"}
    /\ it > Len(us_N)
    /\ pc' = "while"
    /\ N_q' = <<>>
    /\ UNCHANGED <<frame, reach, processed, ret, N_eps, core_dist_p, seeds, q, core_dist_q, it, cb_args>>

\* ------------------------------------------------------------- the seed loop
\* while( !seeds.empty()) fails: expand_cluster_order returns into optics()'s for loop
ExpandReturn ==
    /\ pc = "while"
    /\ seeds = <<>>
    /\ pc' = "for"
    /\ p_it' = p_it + 1
    /\ N_eps' = <<>>
    /\ UNCHANGED <<ecvars, peakvars, db, data, addr, eps, min_pts, version, p, calls, results, entry, exps,
                   reach, processed, ret, core_dist_p, seeds, q, N_q, core_dist_q, it, cb_args>>

\* the seed loop taking *seeds.begin() without erasing it
SeedPop_no_erase ==
    /\ pc = "while"
    /\ seeds # <<>>
    /\ q' = Head(seeds)
    /\ pc' = "core_q"
    /\ UNCHANGED <<frame, reach, processed, ret, N_eps, core_dist_p, seeds, N_q, core_dist_q, it, cb_args>>

\* DataPoint* q = *seeds.begin(); seeds.erase( seeds.begin());
SeedPop ==
    /\ pc = "while"
    /\ seeds # <<>>
    /\ q' = Head(seeds)
    /\ seeds' = Tail(seeds)
    /\ pc' = "core_q"
    /\ UNCHANGED <<frame, reach, processed, ret, N_eps, core_dist_p, N_q, core_dist_q, it, cb_args>>

\* DataVector N_q = get_neighbors( q, eps, db);
\* const real core_dist_q = squared_core_distance( q, min_pts, N_q);
SeedCoreDist ==
    /\ pc = "core_q"
    /\ \E M \in core_rearranged(q, min_pts, get_neighbors(q, eps, db)) :
          /\ N_q' = M
          /\ core_dist_q' = squared_core_distance(q, min_pts, M)
    /\ pc' = "emit_q"
    /\ UNCHANGED <<frame, reach, processed, ret, N_eps, core_dist_p, seeds, q, it, cb_args>>

\* plain version of the seed loop without q->processed( true)
SeedEmit_no_mark ==
    /\ pc = "emit_q"
    /\ version = "plain"
    /\ ret' = Append(ret, q)
    /\ pc' = "check_q"
    /\ UNCHANGED <<frame, reach, processed, N_eps, core_dist_p, seeds, q, N_q, core_dist_q, it, cb_args>>

\* plain version: q->processed( true); o_ordered_vector.push_back( q);
SeedEmit ==
    /\ pc = "emit_q"
    /\ version = "plain"
    /\ processed' = [processed EXCEPT ![q] = TRUE]
    /\ ret' = Append(ret, q)
    /\ pc' = "check_q"
    /\ UNCHANGED <<frame, reach, N_eps, core_dist_p, seeds, q, N_q, core_dist_q, it, cb_args>>

\* callback version of the seed loop without o_ordered_vector.push_back( q)
SeedEmitCb_no_push ==
    /\ pc = "emit_q"
    /\ version = "callback"
    /\ processed' = [processed EXCEPT ![q] = TRUE]
    /\ cb_args' = Append(cb_args, p)
    /\ pc' = "check_q"
    /\ UNCHANGED <<frame, reach, ret, N_eps, core_dist_p, seeds, q, N_q, core_dist_q, it>>

\* callback version: ... o_ordered_vector.push_back( q); point_processed_callback( p);
SeedEmitCb ==
    /\ pc = "emit_q"
    /\ version = "callback"
    /\ processed' = [processed EXCEPT ![q] = TRUE]
    /\ ret' = Append(ret, q)
    /\ cb_args' = Append(cb_args, p)
    /\ pc' = "check_q"
    /\ UNCHANGED <<frame, reach, N_eps, core_dist_p, seeds, q, N_q, core_dist_q, it>>

\* the seed loop going on without the update_seeds call for a core object q
SeedCore_no_update ==
    /\ pc = "check_q"
    /\ core_dist_q # UNDEFINED
    /\ pc' = "while"
    /\ UNCHANGED <<frame, reach, processed, ret, N_eps, core_dist_p, seeds, q, N_q, core_dist_q, it, cb_args>>

\* if( core_dist_q != OPTICS::UNDEFINED) update_seeds( N_q, q, core_dist_q, seeds);
SeedCore ==
    /\ pc = "check_q"
    /\ core_dist_q # UNDEFINED
    /\ it' = 1
    /\ pc' = "us_q"
    /\ UNCHANGED <<frame, reach, processed, ret, N_eps, core_dist_p, seeds, q, N_q, core_dist_q, cb_args>>

\* q is no core object: the next round of the while loop
SeedNotCore ==
    /\ pc = "check_q"
    /\ core_dist_q = UNDEFINED
    /\ pc' = "while"
    /\ N_q' = <<>>
    /\ UNCHANGED <<frame, reach, processed, ret, N_eps, core_dist_p, seeds, q, core_dist_q, it, cb_args>>

\* ------------------------------------------------------------- specification
Next ==
    \/ \E e \in -1..MaxEps, m \in 0..MaxMinPts, v \in {"plain", "callback"} : Call(e, m, v)
    \/ OpticsEntry
    \/ OpticsSkip
    \/ OpticsExpand
    \/ OpticsReturn
    \/ ExpandNeighbors
    \/ ExpandCoreDist
    \/ ExpandEmit
    \/ ExpandEmitCb
    \/ ExpandNotCore
    \/ ExpandSeed
    \/ UpdateSeedsIter
    \/ UpdateSeedsReturn
    \/ ExpandReturn
    \/ SeedPop
    \/ SeedCoreDist
    \/ SeedEmit
    \/ SeedEmitCb
    \/ SeedCore
    \/ SeedNotCore

Spec == Init /\ [][Next]_vars

\* ------------------------------------------------------------- a caller that builds its dataset anew
\* Between two optics() calls the caller deletes its points and builds an
\* equal dataset: the same data in the same storage order, every point as its
\* constructor leaves it, the new pointers in any order.
Rebuild ==
    /\ pc = "caller"
    /\ calls > 0
    /\ calls < MaxCalls
    /\ \E x \in Range(db) : processed[x] \/ reach[x] # UNDEFINED
    /\ addr' \in Permutations(1..Len(db))
    /\ reach' = [i \in 1..Len(db) |-> UNDEFINED]
    /\ processed' = [i \in 1..Len(db) |-> FALSE]
    /\ UNCHANGED <<ecvars, peakvars, db, data, opticsvars>>

NextBoth ==
    \/ Next
    \/ Rebuild

SpecBoth == Init /\ [][NextBoth]_vars

\* a step of a running optics() call: every action but the caller's
ProgramStep ==
    \/ OpticsEntry
    \/ OpticsSkip
    \/ OpticsExpand
    \/ OpticsReturn
    \/ ExpandNeighbors
    \/ ExpandCoreDist
    \/ ExpandEmit
    \/ ExpandEmitCb
    \/ ExpandNotCore
    \/ ExpandSeed
    \/ UpdateSeedsIter
    \/ UpdateSeedsReturn
    \/ ExpandReturn
    \/ SeedPop
    \/ SeedCoreDist
    \/ SeedEmit
    \/ SeedEmitCb
    \/ SeedCore
    \/ SeedNotCore

\* the program as scheduled: a running optics() call is sequential code that
\* takes its next step as long as it has one; the caller need not call
SpecFair == Spec /\ WF_vars(ProgramStep)

\* ------------------------------------------------------------- the dense blob with an outlier
\* optics() with eps = 2 and min_pts = 3 on ten points of two dimensions: the
\* grid (i,j), i,j in {0,1,2}, and the point (100,100).  With nine neighbours
\* to rearrange, std::nth_element is here one of four routines that meet its
\* postcondition, chosen anew at every call, instead of every arrangement.

\* the grid in row-major order, then the far point
BlobData ==
    << <<0, 0>>, <<0, 1>>, <<0, 2>>, <<1, 0>>, <<1, 1>>, <<1, 2>>,
       <<2, 0>>, <<2, 1>>, <<2, 2>>, <<100, 100>> >>

\* a sequence read from its slot k + 1 round to its slot k
Rotated(s, k) == [i \in 1..Len(s) |-> s[((i - 1 + k) % Len(s)) + 1]]

\* a sequence back to front
Reversed(s) == [i \in 1..Len(s) |-> s[Len(s) + 1 - i]]

\* N in ascending distance to pt; elements at the same distance keep their
\* order of N, or take the opposite one if rev
RECURSIVE sorted_nearest(_, _, _)
sorted_nearest(N, pt, rev) ==
    IF N = <<>> THEN <<>>
    ELSE LET x == Head(N)
             rest == sorted_nearest(Tail(N), pt, rev)
             first(y) == \/ squared_distance(pt, y) < squared_distance(pt, x)
                         \/ rev /\ squared_distance(pt, y) = squared_distance(pt, x)
             k == Cardinality({i \in 1..Len(rest) : first(rest[i])})
         IN  SubSeq(rest, 1, k) \o <<x>> \o SubSeq(rest, k + 1, Len(rest))

\* std::nth_element( first, first+n, last, comp) done by one of four routines:
\* a stable sort, a sort that reverses equal elements, and either of them
\* with the elements before slot n and those after it left back to front
nth_element_routines(N, n, pt) ==
    LET parts(S) == Reversed(SubSeq(S, 1, n)) \o <<S[n + 1]>> \o Reversed(SubSeq(S, n + 2, Len(S)))
    IN  {sorted_nearest(N, pt, FALSE), sorted_nearest(N, pt, TRUE),
         parts(sorted_nearest(N, pt, FALSE)), parts(sorted_nearest(N, pt, TRUE))}

\* what squared_core_distance may leave in its N_eps argument with these routines
core_rearranged_routines(pt, mp, N) ==
    IF Len(N) > mp THEN nth_element_routines(N, mp, pt) ELSE {N}

InitBlob ==
    /\ db = [i \in 1..Len(BlobData) |-> i]
    /\ \E k \in 0..(Len(BlobData) - 1) : data = Rotated(BlobData, k)
    /\ addr \in {[i \in 1..Len(BlobData) |-> i], [i \in 1..Len(BlobData) |-> Len(BlobData) + 1 - i]}
    /\ reach = [i \in 1..Len(BlobData) |-> UNDEFINED]
    /\ processed = [i \in 1..Len(BlobData) |-> FALSE]
    /\ entry = [reach |-> [i \in 1..Len(BlobData) |-> UNDEFINED],
                processed |-> [i \in 1..Len(BlobData) |-> FALSE]]
    /\ InitOptics
    /\ IdleExtract
    /\ IdlePeaks

\* const real core_dist_p = squared_core_distance( p, min_pts, N_eps);
ExpandCoreDistBlob ==
    /\ pc = "core_p"
    /\ \E M \in core_rearranged_routines(p, min_pts, N_eps) :
          /\ N_eps' = M
          /\ core_dist_p' = squared_core_distance(p, min_pts, M)
    /\ pc' = "emit_p"
    /\ UNCHANGED <<frame, reach, processed, ret, seeds, q, N_q, core_dist_q, it, cb_args>>

\* DataVector N_q = get_neighbors( q, eps, db);
\* const real core_dist_q = squared_core_distance( q, min_pts, N_q);
SeedCoreDistBlob ==
    /\ pc = "core_q"
    /\ \E M \in core_rearranged_routines(q, min_pts, get_neighbors(q, eps, db)) :
          /\ N_q' = M
          /\ core_dist_q' = squared_core_distance(q, min_pts, M)
    /\ pc' = "emit_q"
    /\ UNCHANGED <<frame, reach, processed, ret, N_eps, core_dist_p, seeds, q, it, cb_args>>

\* the program on the blob: every seed taken is a core object
NextBlob ==
    \/ \E v \in {"plain", "callback"} : Call(2, 3, v)
    \/ OpticsEntry
    \/ OpticsSkip
    \/ OpticsExpand
    \/ OpticsReturn
    \/ ExpandNeighbors
    \/ ExpandCoreDistBlob
    \/ ExpandEmit
    \/ ExpandEmitCb
    \/ ExpandNotCore
    \/ ExpandSeed
    \/ UpdateSeedsIter
    \/ UpdateSeedsReturn
    \/ ExpandReturn
    \/ SeedPop
    \/ SeedCoreDistBlob
    \/ SeedEmit
    \/ SeedEmitCb
    \/ SeedCore

SpecBlob == InitBlob /\ [][NextBlob]_vars

\* ------------------------------------------------------------- extract_clusters()
\* the values a point's reachability can hold in an ordering given to extract_clusters
ReachValues == (0..MaxReach) \cup {UNDEFINED}

\* the thresholds extract_clusters is called with
ThresholdValues == (-1..MaxReach) \cup {UNDEFINED}

\* cluster_borders as a caller can pass it: any unsigned indices, in any order,
\* also beyond the n entries of the ordering
BorderLists(n) == UNION {[1..m -> 0..(n + MaxOver)] : m \in 0..MaxBorders}

\* extract_clusters is entered on an ordering of the caller's points (every point
\* once, each holding some reachability), a border list and a threshold
InitExtract ==
    /\ \E n \in 0..NPts :
          /\ db = [k \in 1..n |-> k]
          /\ data = [k \in 1..n |-> <<0>>]
          /\ addr = [k \in 1..n |-> k]
          /\ reach \in [1..n -> ReachValues]
          /\ processed = [k \in 1..n |-> TRUE]
          /\ entry = [reach |-> [k \in 1..n |-> UNDEFINED],
                      processed |-> [k \in 1..n |-> FALSE]]
          /\ result = [k \in 1..n |-> k]
          /\ cluster_borders \in BorderLists(n)
    /\ outlier_threshold \in ThresholdValues
    /\ threshold_arg = outlier_threshold
    /\ InitOptics
    /\ IdlePeaks
    /\ ec_pc = "entry"
    /\ ec_ret = <<>> /\ ec_i = 0 /\ ec_j = 0
    /\ lower_idx = 0 /\ upper_idx = 0
    /\ cluster_i = <<>>

\* lower_idx of segment k that leaves the border point out
lower_idx_of_skip(k) == IF k = 0 THEN 0 ELSE cluster_borders[k] + 1

\* const unsigned int lower_idx = i == 0 ? 0 : cluster_borders[i-1];
lower_idx_of(k) == IF k = 0 THEN 0 ELSE cluster_borders[k]

\* const unsigned int upper_idx = i == cluster_borders.size() ? result.size() : cluster_borders[i];
upper_idx_of(k) == IF k = Len(cluster_borders) THEN Len(result) ELSE cluster_borders[k + 1]

\* the threshold replaced for negative values only
effective_threshold_negative_only(t) == IF t < 0 THEN REAL_MAX ELSE t

\* if( outlier_threshold <= 0) outlier_threshold = std::numeric_limits<real>::max();
effective_threshold(t) == IF t <= 0 THEN REAL_MAX ELSE t

\* the outlier test that takes UNDEFINED for no reachability at all
is_outlier_finite_only(pt) == reach[pt] > outlier_threshold /\ reach[pt] # UNDEFINED

\* the outlier test with >= in place of >
is_outlier_or_equal(pt) == reach[pt] >= outlier_threshold

\* if( p->reachability_distance() > outlier_threshold)
is_outlier(pt) == reach[pt] > outlier_threshold

\* ret.push_back( DataVector());
\* if( outlier_threshold <= 0) outlier_threshold = std::numeric_limits<real>::max();
EcEntry ==
    /\ ec_pc = "entry"
    /\ ec_ret' = << <<>> >>
    /\ outlier_threshold' = effective_threshold(outlier_threshold)
    /\ ec_i' = 0
    /\ ec_pc' = "outer"
    /\ UNCHANGED <<db, data, addr, reach, processed, opticsvars, peakvars, threshold_arg,
                   result, cluster_borders, ec_j, lower_idx, upper_idx, cluster_i>>

\* for( i=0; i<=cluster_borders.size(); ++i): lower_idx, upper_idx, DataVector cluster_i
EcSegment ==
    /\ ec_pc = "outer"
    /\ ec_i <= Len(cluster_borders)
    /\ lower_idx' = lower_idx_of(ec_i)
    /\ upper_idx' = upper_idx_of(ec_i)
    /\ cluster_i' = <<>>
    /\ ec_j' = lower_idx'
    /\ ec_pc' = "inner"
    /\ UNCHANGED <<db, data, addr, reach, processed, opticsvars, peakvars, threshold_arg,
                   result, cluster_borders, outlier_threshold, ec_ret, ec_i>>

\* for( j=lower_idx; j<upper_idx; ++j): result[j] goes to ret[0] or to cluster_i
\* (j within the ordering)
EcPoint ==
    /\ ec_pc = "inner"
    /\ ec_j < upper_idx
    /\ ec_j < Len(result)
    /\ LET pt == result[ec_j + 1]
       IN  IF is_outlier(pt)
           THEN /\ ec_ret' = [ec_ret EXCEPT ![1] = Append(@, pt)]
                /\ UNCHANGED cluster_i
           ELSE /\ cluster_i' = Append(cluster_i, pt)
                /\ UNCHANGED ec_ret
    /\ ec_j' = ec_j + 1
    /\ UNCHANGED <<db, data, addr, reach, processed, opticsvars, peakvars, threshold_arg,
                   ec_pc, result, cluster_borders, outlier_threshold, ec_i, lower_idx, upper_idx>>

\* a pointer value read past the end of result that is no point of the ordering
WildPointer == 0

\* for( j=lower_idx; j<upper_idx; ++j) with j >= result.size(): DataPoint* p = result[j]
\* reads past the end of the vector, which is undefined: the read or the
\* dereference of what it delivers faults, or the value read is some point of
\* the ordering and is sorted as such, or it is a wild pointer and goes to
\* ret[0] or to cluster_i as the reachability read through it decides
EcPointOutOfRange ==
    /\ ec_pc = "inner"
    /\ ec_j < upper_idx
    /\ ec_j >= Len(result)
    /\ \/ /\ ec_pc' = "fault"
          /\ UNCHANGED <<ec_ret, cluster_i, ec_j>>
       \/ \E pt \in Range(result) \cup {WildPointer} :
             /\ \/ /\ IF pt = WildPointer THEN TRUE ELSE is_outlier(pt)
                   /\ ec_ret' = [ec_ret EXCEPT ![1] = Append(@, pt)]
                   /\ UNCHANGED cluster_i
                \/ /\ IF pt = WildPointer THEN TRUE ELSE ~is_outlier(pt)
                   /\ cluster_i' = Append(cluster_i, pt)
                   /\ UNCHANGED ec_ret
             /\ ec_j' = ec_j + 1
             /\ UNCHANGED ec_pc
    /\ UNCHANGED <<db, data, addr, reach, processed, opticsvars, peakvars, threshold_arg,
                   result, cluster_borders, outlier_threshold, ec_i, lower_idx, upper_idx>>

\* ret.push_back( cluster_i); and ++i
EcSegmentDone ==
    /\ ec_pc = "inner"
    /\ ec_j >= upper_idx
    /\ ec_ret' = Append(ec_ret, cluster_i)
    /\ ec_i' = ec_i + 1
    /\ ec_pc' = "outer"
    /\ UNCHANGED <<db, data, addr, reach, processed, opticsvars, peakvars, threshold_arg,
                   result, cluster_borders, outlier_threshold, ec_j, lower_idx, upper_idx, cluster_i>>

\* return ret;
EcReturn ==
    /\ ec_pc = "outer"
    /\ ec_i > Len(cluster_borders)
    /\ ec_pc' = "returned"
    /\ UNCHANGED <<db, data, addr, reach, processed, opticsvars, peakvars, threshold_arg,
                   result, cluster_borders, outlier_threshold, ec_ret, ec_i, ec_j,
                   lower_idx, upper_idx, cluster_i>>

NextExtract ==
    \/ EcEntry
    \/ EcSegment
    \/ EcPoint
    \/ EcPointOutOfRange
    \/ EcSegmentDone
    \/ EcReturn

SpecExtract == InitExtract /\ [][NextExtract]_vars

\* ------------------------------------------------------------- optics(), then extract_clusters()
\* The test program hands what its optics() call returned to
\* extract_clusters, with the border indices and the threshold of its choice.
CallExtract ==
    /\ pc = "caller"
    /\ Len(results) = 1
    /\ ec_pc = "idle"
    /\ result' = results[1].ret
    /\ cluster_borders' \in BorderLists(Len(results[1].ret))
    /\ outlier_threshold' \in ThresholdValues
    /\ threshold_arg' = outlier_threshold'
    /\ ec_pc' = "entry"
    /\ pc' = "extract"
    /\ UNCHANGED <<peakvars, db, data, addr, reach, processed, eps, min_pts, version, ret, p_it,
                   p, N_eps, core_dist_p, seeds, q, N_q, core_dist_q, it, cb_args,
                   calls, results, entry, exps,
                   ec_ret, ec_i, ec_j, lower_idx, upper_idx, cluster_i>>

NextPipeline ==
    \/ Next
    \/ CallExtract
    \/ NextExtract

SpecPipeline == Init /\ [][NextPipeline]_vars

\* ------------------------------------------------------------- find_k_histogram_peaks()
\* The histogram-peak helper of the test program, on its own.  The persistence
\* routine (p1d::Persistence1D) is a library outside the repository: what it
\* delivers is taken as any list of paired extrema in ascending order of
\* persistence.

\* a p1d::TPairedExtrema, as far as find_k_histogram_peaks reads it
PairedExtrema == [MaxIndex : 0..MaxPeakIndex, Persistence : 1..MaxPersistence]

\* what p.GetPairedExtrema(extrema, 0) can deliver
PairedExtremaLists ==
    {E \in UNION {[1..m -> PairedExtrema] : m \in 0..MaxExtrema} :
        \A k \in 1..(Len(E) - 1) : E[k].Persistence <= E[k + 1].Persistence}

InitPeaks ==
    /\ db = <<>> /\ data = <<>> /\ addr = <<>> /\ reach = <<>> /\ processed = <<>>
    /\ entry = [reach |-> <<>>, processed |-> <<>>]
    /\ InitOptics
    /\ IdleExtract
    /\ pk_pc = "entry"
    /\ n_clusters \in 0..MaxK
    /\ extrema = <<>>
    /\ pk_n = 0 /\ pk_i = 0 /\ pk_ret = <<>>

\* the loop condition with n <= n_clusters in place of n < n_clusters
loop_condition_inclusive(i, n) == i >= 0 /\ n <= n_clusters

\* i>=0 && n<n_clusters
loop_condition(i, n) == i >= 0 /\ n < n_clusters

\* std::vector<unsigned int> ret; p.RunPersistence(reachabilities);
\* p.GetPairedExtrema(extrema, 0); unsigned int n=1; int i=extrema.size()-1
PeaksEntry ==
    /\ pk_pc = "entry"
    /\ pk_ret' = <<>>
    /\ \E E \in PairedExtremaLists :
          /\ extrema' = E
          /\ pk_i' = Len(E) - 1
    /\ pk_n' = 1
    /\ pk_pc' = "loop"
    /\ UNCHANGED <<db, data, addr, reach, processed, opticsvars, ecvars, n_clusters>>

\* for( ...; i>=0 && n<n_clusters; --i, ++n) ret.push_back( extrema[i].MaxIndex);
PeaksPush ==
    /\ pk_pc = "loop"
    /\ loop_condition(pk_i, pk_n)
    /\ pk_ret' = Append(pk_ret, extrema[pk_i + 1].MaxIndex)
    /\ pk_i' = pk_i - 1
    /\ pk_n' = pk_n + 1
    /\ UNCHANGED <<db, data, addr, reach, processed, opticsvars, ecvars, pk_pc, n_clusters, extrema>>

\* return ret;
PeaksReturn ==
    /\ pk_pc = "loop"
    /\ ~loop_condition(pk_i, pk_n)
    /\ pk_pc' = "returned"
    /\ UNCHANGED <<db, data, addr, reach, processed, opticsvars, ecvars,
                   n_clusters, extrema, pk_n, pk_i, pk_ret>>

NextPeaks ==
    \/ PeaksEntry
    \/ PeaksPush
    \/ PeaksReturn

SpecPeaks == InitPeaks /\ [][NextPeaks]_vars

\* ------------------------------------------------------------- notions the claims use
\* optics() was entered on a dataset in its initial state
EntryInitial ==
    \A x \in Range(db) : entry.reach[x] = UNDEFINED /\ ~entry.processed[x]

\* optics() is at its return statement
AtReturn == pc = "for" /\ p_it > Len(db)

\* the slots of the ordering that an expand_cluster_order call filled first
FirstSlots == {exps[k].first : k \in 1..Len(exps)}

\* the first slot of the expansion that filled slot i
ExpansionStart(i) ==
    CHOOSE s \in FirstSlots : s <= i /\ \A t \in FirstSlots : t <= i => t <= s

\* the eps-neighbourhood of x as a set, x included
Neighbourhood(x) == {y \in Range(db) : squared_distance(x, y) <= eps * eps}

\* the value of 0-based rank k among the squared distances from x to the points of S
OrderStatistic(x, S, k) ==
    CHOOSE v \in {squared_distance(x, y) : y \in S} :
        /\ Cardinality({y \in S : squared_distance(x, y) < v}) <= k
        /\ Cardinality({y \in S : squared_distance(x, y) <= v}) > k

\* the core distance of x by its definition
CoreDistance(x) ==
    IF Cardinality(Neighbourhood(x)) <= min_pts THEN UNDEFINED
    ELSE OrderStatistic(x, Neighbourhood(x), min_pts)

SetMin(S) == CHOOSE v \in S : \A w \in S : v <= w

\* what the core objects emitted before slot i in the same expansion offer to ret[i]
Offers(i) ==
    {Max(CoreDistance(ret[j]), squared_distance(ret[j], ret[i])) :
        j \in {k \in ExpansionStart(i)..(i - 1) :
                  /\ CoreDistance(ret[k]) # UNDEFINED
                  /\ ret[i] \in Neighbourhood(ret[k])}}

\* ------------------------------------------------------------- claims
\* C1: a call of optics() with valid parameters on a dataset in its initial
\* state never holds a point twice in its ordering, and at its return the
\* ordering has the length of the dataset and holds every point exactly once.
C1_TotalCoverage ==
    (EntryInitial /\ pc \notin {"caller", "optics", "aborted"}) =>
        /\ \A i, j \in 1..Len(ret) : ret[i] = ret[j] => i = j
        /\ AtReturn =>
              /\ Len(ret) = Len(db)
              /\ \A x \in Range(db) : Cardinality({i \in 1..Len(ret) : ret[i] = x}) = 1

\* C1 witness: a run on an initial dataset of several points is at its return
\* and some of its points were emitted from the seed loop.
C1_Witness ==
    /\ EntryInitial /\ AtReturn
    /\ Len(db) >= 3
    /\ Len(exps) >= 2
    /\ Len(exps) < Len(ret)

\* C2 (as claimed): two calls of optics() on the same dataset with the same eps
\* and min_pts return the same emission sequence with the same recorded
\* reachabilities.
C2_SameOrderTwice ==
    \A i, j \in 1..Len(results) :
        (results[i].eps = results[j].eps /\ results[i].min_pts = results[j].min_pts) =>
            /\ results[i].ret = results[j].ret
            /\ [k \in 1..Len(results[i].ret) |-> results[i].reach[results[i].ret[k]]]
                 = [k \in 1..Len(results[j].ret) |-> results[j].reach[results[j].ret[k]]]

\* C3: the point an expand_cluster_order call was started on fills the first
\* slot that call appends to the ordering, and its reachability is UNDEFINED
\* from that emission on.
C3_FirstEmissionSentinel ==
    \A k \in 1..Len(exps) :
        /\ exps[k].first <= Len(ret) + 1
        /\ exps[k].first <= Len(ret) =>
              /\ ret[exps[k].first] = exps[k].p
              /\ reach[exps[k].p] = UNDEFINED
        /\ (exps[k].first = Len(ret) + 1) => (k = Len(exps) /\ pc \in {"expand", "core_p", "emit_p"})

\* C3 witness: an expansion has emitted its first point and points from its
\* seed loop after it, and update_seeds has run over the neighbourhood of a
\* later core object that contains the first point.
C3_Witness ==
    /\ pc = "while"
    /\ Len(ret) >= 2
    /\ Len(exps) = 1
    /\ core_dist_q # UNDEFINED
    /\ ret[Len(ret)] = q
    /\ exps[1].p \in Neighbourhood(q)
    /\ reach[exps[1].p] = UNDEFINED

\* C4: every point emitted from the seed loop of an expansion has a finite
\* reachability, the least of max(core_dist(c), d2(c,q)) over the core objects
\* c emitted before it in the same expansion whose eps-neighbourhood holds it.
C4_SeedReachability ==
    \A i \in 1..Len(ret) :
        i \notin FirstSlots =>
            /\ reach[ret[i]] # UNDEFINED
            /\ Offers(i) # {}
            /\ reach[ret[i]] = SetMin(Offers(i))

\* C4 witness: a point emitted from the seed loop was offered two different
\* reachabilities and carries the smaller one, which is not the first offer.
C4_Witness ==
    \E i \in 1..Len(ret) :
        /\ i \notin FirstSlots
        /\ Cardinality(Offers(i)) >= 2
        /\ reach[ret[i]] = SetMin(Offers(i))
        /\ reach[ret[i]] < new_r_dist(CoreDistance(ret[ExpansionStart(i)]), ret[ExpansionStart(i)], ret[i])

\* C5: in a run on a dataset in its initial state, every change of a point's
\* reachability goes from UNDEFINED to a finite value or from a finite value
\* to a strictly smaller one.
C5_MonotoneImprovement ==
    [][EntryInitial =>
         \A x \in Range(db) :
            reach'[x] # reach[x] =>
               \/ reach[x] = UNDEFINED /\ reach'[x] < UNDEFINED
               \/ reach[x] < UNDEFINED /\ reach'[x] < reach[x]]_vars

\* C5 witness: an unprocessed seed of the running expansion holds a finite
\* reachability smaller than the one the expansion's first point gave it.
C5_Witness ==
    /\ EntryInitial
    /\ pc \in {"us_q", "while"}
    /\ \E x \in Range(seeds) :
          /\ ~processed[x]
          /\ x \in Neighbourhood(p)
          /\ reach[x] < new_r_dist(core_dist_p, p, x)

\* C6: once a point is marked processed and is in the ordering, no step
\* changes its reachability or its processed flag.
C6_FrozenAtEmission ==
    [][\A x \in Range(ret) :
          processed[x] => (reach'[x] = reach[x] /\ processed'[x])]_vars

\* C6 witness: update_seeds has finished for a core object whose neighbourhood
\* holds an earlier emitted point that it would have improved.
C6_Witness ==
    /\ pc = "while"
    /\ core_dist_q # UNDEFINED
    /\ Len(ret) >= 1 /\ ret[Len(ret)] = q
    /\ \E x \in Range(ret) :
          /\ x \in Neighbourhood(q)
          /\ processed[x]
          /\ reach[x] # UNDEFINED
          /\ new_r_dist(core_dist_q, q, x) < reach[x]

\* C7 (as claimed): in the callback version the sequence of callback
\* arguments equals the ordering built so far.
C7_CallbackMirrorsOrdering ==
    (version = "callback" /\ pc \notin {"caller", "optics", "aborted"}) => cb_args = ret

\* C8: a call with eps < 0 or min_pts = 0 gets no further than the assertion
\* failure at entry: no reachability and no processed flag differs from what
\* it was at the call, and nothing is emitted.
C8_InvalidRejected ==
    (calls > 0 /\ (eps < 0 \/ min_pts = 0)) =>
        /\ pc \in {"optics", "aborted"}
        /\ reach = entry.reach
        /\ processed = entry.processed
        /\ ret = <<>>
        /\ cb_args = <<>>

\* C8 witness: a call with invalid parameters on a dataset that an earlier run
\* has processed has ended in the assertion failure.
C8_Witness ==
    /\ pc = "aborted"
    /\ eps < 0
    /\ \E x \in Range(db) : processed[x] /\ reach[x] # UNDEFINED

\* C9: squared_core_distance returns UNDEFINED when the neighbourhood has at
\* most min_pts members, and else the value of 0-based rank min_pts among the
\* squared distances to its members, whatever their order on entry.
C9_CoreDistance ==
    /\ pc = "emit_p" => core_dist_p = CoreDistance(p)
    /\ pc = "emit_q" => core_dist_q = CoreDistance(q)

\* C9 witness: a defined core distance was computed for a neighbourhood that
\* get_neighbors delivered in an order not ascending in the distance.
C9_Witness ==
    /\ pc = "emit_q"
    /\ core_dist_q # UNDEFINED
    /\ LET N == get_neighbors(q, eps, db)
       IN  \E i \in 1..(Len(N) - 1) : squared_distance(q, N[i]) > squared_distance(q, N[i + 1])

\* the number of times point x occurs in the buckets extract_clusters returned
RECURSIVE Occurrences(_, _)
Occurrences(x, b) ==
    IF b > Len(ec_ret) THEN 0
    ELSE Cardinality({k \in 1..Len(ec_ret[b]) : ec_ret[b][k] = x}) + Occurrences(x, b + 1)

\* every border index lies within [0, n]
BordersInRange ==
    \A k \in 1..Len(cluster_borders) : cluster_borders[k] <= Len(result)

\* cluster_borders is in ascending order
BordersAscending ==
    \A k \in 1..(Len(cluster_borders) - 1) : cluster_borders[k] <= cluster_borders[k + 1]

\* C10 (as claimed): for any border list with indices in [0, n] and any
\* threshold, extract_clusters returns |B| + 2 buckets and every point of the
\* ordering occurs in the buckets exactly once.
C10_PartitionAnyBorders ==
    (ec_pc = "returned" /\ BordersInRange) =>
        /\ Len(ec_ret) = Len(cluster_borders) + 2
        /\ \A x \in Range(result) : Occurrences(x, 1) = 1

\* C10 (amended): for any border list in ascending order with indices in
\* [0, n] and any threshold, extract_clusters returns |B| + 2 buckets and
\* every point of the ordering occurs in the buckets exactly once.
C10_PartitionAscendingBorders ==
    (ec_pc = "returned" /\ BordersInRange /\ BordersAscending) =>
        /\ Len(ec_ret) = Len(cluster_borders) + 2
        /\ \A x \in Range(result) : Occurrences(x, 1) = 1
        /\ \A b \in 1..Len(ec_ret) : Range(ec_ret[b]) \subseteq Range(result)

\* C10 witness: extract_clusters has returned for ascending borders that cut
\* the ordering inside, with an outlier and two non-empty cluster buckets.
C10_Witness ==
    /\ ec_pc = "returned"
    /\ BordersInRange
    /\ BordersAscending
    /\ Len(cluster_borders) >= 2
    /\ \E k \in 1..Len(cluster_borders) : 0 < cluster_borders[k] /\ cluster_borders[k] < Len(result)
    /\ ec_ret[1] # <<>>
    /\ Cardinality({b \in 2..Len(ec_ret) : ec_ret[b] # <<>>}) >= 2

\* border b_i of the segment description: b_0 = 0, b_(m+1) = n, else the i-th border
BorderAt(i) ==
    IF i = 0 THEN 0
    ELSE IF i = Len(cluster_borders) + 1 THEN Len(result)
    ELSE cluster_borders[i]

\* the points at ordering positions [lo, hi), in ordering order, that satisfy Keep
SegmentPoints(lo, hi, Keep(_)) == SelectSeq(SubSeq(result, lo + 1, hi), Keep)

\* C11: for an ascending border list within [0, n] and a positive threshold t,
\* extract_clusters returns bucket i (1 <= i <= m + 1) holding exactly the
\* points at ordering positions [b_(i-1), b_i) whose reachability is <= t, in
\* ordering order, and bucket 0 holding exactly the points whose reachability
\* is > t; a bucket is present for every segment, also for an empty one.
C11_SegmentSemantics ==
    (ec_pc = "returned" /\ BordersInRange /\ BordersAscending /\ threshold_arg > 0) =>
        /\ Len(ec_ret) = Len(cluster_borders) + 2
        /\ \A i \in 1..(Len(cluster_borders) + 1) :
              ec_ret[i + 1] = SegmentPoints(BorderAt(i - 1), BorderAt(i),
                                            LAMBDA x : reach[x] <= threshold_arg)
        /\ ec_ret[1] = SegmentPoints(0, Len(result), LAMBDA x : reach[x] > threshold_arg)

\* C11 witness: extract_clusters has returned for ascending borders and a
\* positive threshold, with an empty segment, an outlier, a point whose
\* reachability equals the threshold, and a border point that went to the
\* bucket of the segment on its right.
C11_Witness ==
    /\ ec_pc = "returned"
    /\ BordersInRange /\ BordersAscending
    /\ threshold_arg > 0
    /\ \E i \in 1..(Len(cluster_borders) + 1) : BorderAt(i - 1) = BorderAt(i) /\ ec_ret[i + 1] = <<>>
    /\ ec_ret[1] # <<>>
    /\ \E x \in Range(result) : reach[x] = threshold_arg
    /\ \E k \in 1..Len(cluster_borders) :
          /\ cluster_borders[k] < Len(result)
          /\ result[cluster_borders[k] + 1] \in Range(ec_ret[k + 2])

\* C12: when extract_clusters is called with outlier_threshold <= 0 (and a
\* border list within [0, n]), bucket 0 stays empty throughout and at return,
\* whatever the ordering and the border list, also for points whose
\* reachability is UNDEFINED.
C12_NonPositiveThresholdNoOutliers ==
    (threshold_arg <= 0 /\ BordersInRange /\ ec_pc \in {"outer", "inner", "returned"}) =>
        ec_ret[1] = <<>>

\* C12 witness: extract_clusters has returned for a threshold of 0 on an
\* ordering that holds a point of UNDEFINED reachability and a point of
\* positive finite reachability.
C12_Witness ==
    /\ ec_pc = "returned"
    /\ threshold_arg = 0
    /\ BordersInRange
    /\ \E x \in Range(result) : reach[x] = UNDEFINED
    /\ \E x \in Range(result) : reach[x] > 0 /\ reach[x] < UNDEFINED
    /\ ec_ret[1] = <<>>

\* C13 (as claimed): extract_clusters called with a border index greater than
\* n never reads an ordering position >= n and never returns buckets as if
\* the borders were valid: it ends in an error outcome instead.
C13_OutOfRangeReported ==
    ~BordersInRange =>
        /\ ~(ec_pc = "inner" /\ ec_j < upper_idx /\ ec_j >= Len(result))
        /\ ec_pc # "fault"
        /\ ec_pc # "returned"

\* the smaller of two numbers
Min(a, b) == IF a <= b THEN a ELSE b

\* C14: for any list E of paired extrema in ascending order of persistence
\* and any k >= 1, find_k_histogram_peaks returns exactly min(k - 1, |E|)
\* max-indices, the j-th being that of the j-th extremum from the end of E;
\* it never returns more than k - 1 indices and returns none for k = 1.
C14_TopKCap ==
    (pk_pc = "returned" /\ n_clusters >= 1) =>
        /\ Len(pk_ret) = Min(n_clusters - 1, Len(extrema))
        /\ \A j \in 1..Len(pk_ret) : pk_ret[j] = extrema[Len(extrema) - j + 1].MaxIndex
        /\ Len(pk_ret) <= n_clusters - 1
        /\ (n_clusters = 1 => pk_ret = <<>>)

\* C14 witness: find_k_histogram_peaks has returned with the cap in effect:
\* more paired extrema than k - 1 >= 2, of distinct persistence and max-index
\* at the end of the list.
C14_Witness ==
    /\ pk_pc = "returned"
    /\ n_clusters >= 3
    /\ Len(extrema) > n_clusters - 1
    /\ Len(pk_ret) = n_clusters - 1
    /\ extrema[Len(extrema)].Persistence > extrema[Len(extrema) - 1].Persistence
    /\ extrema[Len(extrema)].MaxIndex # extrema[Len(extrema) - 1].MaxIndex

\* the points of the grid, and the far point
BlobPoints == {x \in Range(db) : data[x] # <<100, 100>>}
FarPoints == {x \in Range(db) : data[x] = <<100, 100>>}

\* the grid point that comes first in the storage order
FirstBlobPoint == db[SetMin({i \in 1..Len(db) : db[i] \in BlobPoints})]

\* C15 (as claimed): on the nine grid points plus (100,100) with eps = 2 and
\* min_pts = 3, optics() emits all nine grid points with a finite
\* reachability and the point (100,100) with reachability UNDEFINED.
C15_AllBlobPointsFinite ==
    Len(results) >= 1 =>
        /\ Range(results[1].ret) = Range(db)
        /\ \A x \in BlobPoints : results[1].reach[x] < UNDEFINED
        /\ \A x \in FarPoints : results[1].reach[x] = UNDEFINED

\* C15 (amended): on the nine grid points plus (100,100) with eps = 2 and
\* min_pts = 3, optics() emits all ten points; the grid point that comes first
\* in the storage order and the point (100,100) have reachability UNDEFINED,
\* the other eight grid points a finite one.
C15_BlobFiniteButFirst ==
    Len(results) >= 1 =>
        /\ Range(results[1].ret) = Range(db)
        /\ Len(results[1].ret) = Len(db)
        /\ \A x \in BlobPoints \ {FirstBlobPoint} : results[1].reach[x] < UNDEFINED
        /\ results[1].reach[FirstBlobPoint] = UNDEFINED
        /\ \A x \in FarPoints : results[1].reach[x] = UNDEFINED

\* C15 witness: the first optics() call on the ten points has returned, with
\* the far point stored before the grid and eight finite reachabilities.
C15_Witness ==
    /\ Len(results) >= 1
    /\ results[1].eps = 2 /\ results[1].min_pts = 3
    /\ Len(results[1].ret) = 10
    /\ data[db[1]] = <<100, 100>>
    /\ Cardinality({x \in Range(db) : results[1].reach[x] < UNDEFINED}) = 8

\* the unprocessed points with a finite reachability
OpenPoints == {x \in Range(db) : ~processed[x] /\ reach[x] # UNDEFINED}

\* no point occurs twice in the sequence
NoDuplicates(s) == \A i, j \in 1..Len(s) : s[i] = s[j] => i = j

\* the control positions from the first update_seeds call of an expansion to
\* the end of its seed loop, and those of the seed loop alone
InExpansion == pc \in {"us_p", "while", "core_q", "emit_q", "check_q", "us_q"}
InSeedLoop == pc \in {"while", "core_q", "emit_q", "check_q", "us_q"}

\* q was taken from seeds and is not yet marked processed
SeedInHand == pc \in {"core_q", "emit_q"}

\* update_seeds is about to look at the element o of its N_eps
AtUpdateSeedsElement == pc \in {"us_p", "us_q"} /\ it <= Len(us_N)

SortedByComp(s, r) == \A i, j \in 1..Len(s) : i < j => Comp(r, s[i], s[j])

\* C17: every point q taken from seeds in the seed loop is one of its
\* elements and has a reachability <= that of every point remaining in
\* seeds, with the smallest handle identity among the seeds of that minimal
\* reachability, and nothing else leaves the set; the reachability of a seed
\* changes only together with its erase before and its insert after, so the
\* set stays in the order of (reachability, identity) of its current keys.
C17_PopMinimum ==
    [][/\ (pc = "while" /\ pc' = "core_q") =>
             /\ q' \in Range(seeds)
             /\ \A x \in Range(seeds) \ {q'} : Comp(reach, q', x)
             /\ Range(seeds') = Range(seeds) \ {q'}
       /\ \A x \in Range(db) :
             reach'[x] # reach[x] =>
                 seeds' = SetInsert(SetErase(seeds, x, reach), x, reach')
       /\ SortedByComp(seeds', reach')]_vars

\* C17 witness: a point was just taken from seeds that ties on the
\* reachability with a point remaining there and wins on the handle
\* identity, while a third point of larger reachability remains, after an
\* earlier seed was expanded.
C17_Witness ==
    /\ pc = "core_q"
    /\ Len(ret) >= 2
    /\ \E x \in Range(seeds) : reach[x] = reach[q] /\ addr[q] < addr[x]
    /\ \E x \in Range(seeds) : reach[x] > reach[q]

\* C18: on an initial-state dataset with valid parameters optics() eventually
\* returns; each iteration of the seed loop marks one previously unprocessed
\* point, and only that point, as processed; seeds is empty whenever
\* expand_cluster_order has returned; and at return of optics() every point
\* is processed.
C18_Termination ==
    /\ (pc = "optics" /\ EntryInitial /\ params_ok(eps, min_pts)) ~> (pc = "caller")
    /\ [][(EntryInitial /\ pc = "emit_q" /\ pc' # pc) =>
             /\ ~processed[q]
             /\ processed' = [processed EXCEPT ![q] = TRUE]]_vars
    /\ []((EntryInitial /\ pc = "for") => seeds = <<>>)
    /\ []((EntryInitial /\ AtReturn) => \A x \in Range(db) : processed[x])

\* C18 witness: the first optics() call, on three points with valid
\* parameters, has returned after one expansion whose seed loop ran twice.
C18_Witness ==
    /\ pc = "caller"
    /\ Len(results) = 1
    /\ EntryInitial
    /\ params_ok(eps, min_pts)
    /\ Len(results[1].ret) = 3
    /\ Len(exps) = 1
    /\ \A x \in Range(db) : processed[x]

\* the i-th finished optics() call was entered on an initial-state dataset
RunInitial(i) ==
    \A x \in Range(db) : results[i].entry.reach[x] = UNDEFINED /\ ~results[i].entry.processed[x]

\* C19: a finished run of the plain overload and a finished run of the
\* callback overload, on equal initial-state datasets (the same data in the
\* same storage order with the same order of handle identities) and with the
\* same eps and min_pts, returned the same ordering and left every point
\* with the same reachability and the same processed flag.
C19_CallbackEquivalence ==
    \A i, j \in 1..Len(results) :
        (/\ results[i].version = "plain" /\ results[j].version = "callback"
         /\ RunInitial(i) /\ RunInitial(j)
         /\ results[i].addr = results[j].addr
         /\ results[i].eps = results[j].eps /\ results[i].min_pts = results[j].min_pts) =>
            /\ results[i].ret = results[j].ret
            /\ results[i].reach = results[j].reach
            /\ results[i].processed = results[j].processed

\* C19 witness: both overloads have run on equal initial-state datasets of
\* three points with the same parameters, and the ordering holds all three
\* points, one of them with a finite reachability.
C19_Witness ==
    /\ Len(results) = 2
    /\ results[1].version # results[2].version
    /\ RunInitial(1) /\ RunInitial(2)
    /\ results[1].addr = results[2].addr
    /\ results[1].eps = results[2].eps /\ results[1].min_pts = results[2].min_pts
    /\ Len(results[2].ret) = 3
    /\ \E x \in Range(db) : results[2].reach[x] # UNDEFINED

\* C20: throughout an optics() run on an initial-state dataset, and in what
\* the run returns, every defined core distance and every finite
\* reachability of a point is <= eps * eps.
C20_BoundedByRadius ==
    EntryInitial =>
        /\ \A x \in Range(db) : reach[x] = UNDEFINED \/ reach[x] <= eps * eps
        /\ core_dist_p = UNDEFINED \/ core_dist_p <= eps * eps
        /\ core_dist_q = UNDEFINED \/ core_dist_q <= eps * eps
        /\ pc = "caller" =>
              \A i \in 1..Len(results) : \A k \in 1..Len(results[i].ret) :
                  \/ results[i].reach[results[i].ret[k]] = UNDEFINED
                  \/ results[i].reach[results[i].ret[k]] <= results[i].eps * results[i].eps

\* C20 witness: a run on an initial-state dataset with eps > 0 has returned
\* with a point of reachability eps * eps and a defined core distance of a
\* seed, on a db that holds two points farther than eps from each other.
C20_Witness ==
    /\ EntryInitial
    /\ pc = "caller"
    /\ Len(results) = 1
    /\ eps > 0
    /\ \E x \in Range(db) : reach[x] = eps * eps
    /\ core_dist_q # UNDEFINED
    /\ \E x, y \in Range(db) : squared_distance(x, y) > eps * eps

\* the buckets of extract_clusters' result that are cluster buckets
ClusterBuckets == 2..Len(ec_ret)

\* C21: for a threshold t with 0 < t < UNDEFINED (and borders within [0, n]),
\* extract_clusters has put every point of the ordering whose reachability
\* is UNDEFINED into bucket 0 and into no cluster bucket; on what optics()
\* returned for an initial-state dataset this holds for the point every
\* expansion started on, so no cluster bucket holds the starting point of
\* its cluster.
C21_UndefinedAreOutliers ==
    (ec_pc = "returned" /\ BordersInRange
       /\ 0 < threshold_arg /\ threshold_arg < UNDEFINED) =>
        /\ \A x \in Range(result) :
              reach[x] = UNDEFINED =>
                  /\ x \in Range(ec_ret[1])
                  /\ \A b \in ClusterBuckets : x \notin Range(ec_ret[b])
        /\ EntryInitial =>
              \A k \in 1..Len(exps) :
                  /\ result[exps[k].first] = exps[k].p
                  /\ exps[k].p \in Range(ec_ret[1])
                  /\ \A b \in ClusterBuckets : exps[k].p \notin Range(ec_ret[b])

\* C21 witness: extract_clusters has returned on an optics() result of three
\* points from two expansions, with a positive finite threshold and a border
\* inside the ordering, and a cluster bucket holds a point.
C21_Witness ==
    /\ ec_pc = "returned"
    /\ BordersInRange
    /\ 0 < threshold_arg /\ threshold_arg < UNDEFINED
    /\ EntryInitial
    /\ Len(result) = 3
    /\ Len(exps) = 2
    /\ \E k \in 1..Len(cluster_borders) : 0 < cluster_borders[k] /\ cluster_borders[k] < Len(result)
    /\ \E b \in ClusterBuckets : ec_ret[b] # <<>>
    /\ Len(ec_ret[1]) >= 2

====
